---- MODULE Spec2Model ----
(***************************************************************************)
(* Personal-Pennies chart engine (.github/scripts/generate_charts.py):     *)
(* the time-windowed bucketing and resampling of trade events into the     *)
(* portfolio-value and total-return series of six timeframes.              *)
(*                                                                         *)
(* A datetime is a record [year, month, day, hour, minute, second]         *)
(* (second resolution; microseconds are not modelled).  A label is the     *)
(* tuple <<format, field, ...>> of the strftime format and the fields the  *)
(* format prints, so that formatting loses what the string loses.          *)
(***************************************************************************)
EXTENDS Integers, Sequences, FiniteSets, TLC

VARIABLES
    trades,          \* main: the trade records of the index (input)
    account_config,  \* main: the account configuration (input)
    pc,              \* position of the run
    run,             \* number of the invocation (1 or 2)
    timeframe_idx,   \* index into timeframes of the next loop iteration
    sorted_trades,   \* generate_*_charts: parsable trades, sorted
    trade_dates,     \* generate_*_charts: timestamps of the event series
    series_values,   \* portfolio_values / return_percentages
    end_date,        \* reference end date
    files,           \* output path -> chart data written
    first_files,     \* the files the first invocation wrote
    now,             \* the system clock
    args,            \* arguments of a pure function under check
    ret              \* its result

vars == <<trades, account_config, pc, run, timeframe_idx, sorted_trades,
          trade_dates, series_values, end_date, files, first_files, now, args, ret>>

pipeline_vars == <<trades, account_config, run, timeframe_idx, sorted_trades,
                   trade_dates, series_values, end_date, files, first_files, now>>

(***************************************************************************)
(* datetime, date and timedelta of the Python standard library, as the     *)
(* script uses them.                                                       *)
(***************************************************************************)
DT(y, mo, d, h, mi, s) ==
    [year |-> y, month |-> mo, day |-> d, hour |-> h, minute |-> mi, second |-> s]

\* None where a datetime is expected (no datetime has year 0)
None == DT(0, 0, 0, 0, 0, 0)

IsLeap(y) == (y % 4 = 0) /\ ((y % 100 # 0) \/ (y % 400 = 0))

DaysInMonth(y, mo) ==
    IF mo = 2 THEN (IF IsLeap(y) THEN 29 ELSE 28)
    ELSE IF mo \in {4, 6, 9, 11} THEN 30 ELSE 31

DaysBeforeMonth(y, mo) ==
    <<0, 31, 59, 90, 120, 151, 181, 212, 243, 273, 304, 334>>[mo]
    + (IF mo > 2 /\ IsLeap(y) THEN 1 ELSE 0)

DaysBeforeYear(y) ==
    LET p == y - 1 IN p * 365 + (p \div 4) - (p \div 100) + (p \div 400)

\* date.toordinal(): 0001-01-01 is day 1
ToOrdinal(d) == DaysBeforeYear(d.year) + DaysBeforeMonth(d.year, d.month) + d.day

\* the month of day number yday (1-based) of year y
MonthOf(y, yday) ==
    CHOOSE m \in 1..12 :
       /\ DaysBeforeMonth(y, m) < yday
       /\ yday <= DaysBeforeMonth(y, m) + DaysInMonth(y, m)

\* the year of ordinal n
YearOf(n) ==
    CHOOSE c \in (n \div 366)..(n \div 365 + 1) :
       DaysBeforeYear(c) < n /\ n <= DaysBeforeYear(c + 1)

YearMonthDay(y, mo, yday) == <<y, mo, yday - DaysBeforeMonth(y, mo)>>

YearDay(y, yday) == YearMonthDay(y, MonthOf(y, yday), yday)

YearOrdinal(y, n) == YearDay(y, n - DaysBeforeYear(y))

\* date.fromordinal(n), as a <<year, month, day>> triple
FromOrdinal(n) == YearOrdinal(YearOf(n), n)

WithDate(d, ymd) == [d EXCEPT !.year = ymd[1], !.month = ymd[2], !.day = ymd[3]]

\* datetime - timedelta(days=n): the date moves, the time of day stays
MinusDays(d, n) == WithDate(d, FromOrdinal(ToOrdinal(d) - n))

\* date.weekday(): Monday is 0
Weekday(d) == (ToOrdinal(d) + 6) % 7

SecondOfDay(d) == (d.hour * 60 + d.minute) * 60 + d.second

DateNum(d) == (d.year * 12 + (d.month - 1)) * 31 + (d.day - 1)

\* datetime comparison a < b and a <= b
DTLess(a, b) ==
    \/ DateNum(a) < DateNum(b)
    \/ DateNum(a) = DateNum(b) /\ SecondOfDay(a) < SecondOfDay(b)

DTLeq(a, b) == a = b \/ DTLess(a, b)

\* strftime("%W"): week of the year, weeks starting on Monday, week 0 before the first Monday
WeekOfYear(d) ==
    LET yday == DaysBeforeMonth(d.year, d.month) + d.day
    IN  (yday + 6 - Weekday(d)) \div 7

\* SortedDT in descending order
RECURSIVE SortedDT_descending(_)
SortedDT_descending(S) ==
    IF S = {} THEN <<>>
    ELSE LET hi == CHOOSE x \in S : \A y \in S : DTLeq(y, x)
         IN  <<hi>> \o SortedDT_descending(S \ {hi})

\* sorted(S) of a set of datetimes, ascending
RECURSIVE SortedDT(_)
SortedDT(S) ==
    IF S = {} THEN <<>>
    ELSE LET lo == CHOOSE x \in S : \A y \in S : DTLeq(x, y)
         IN  <<lo>> \o SortedDT(S \ {lo})

\* max(seq) of a non-empty sequence of datetimes
MaxDT(seq) ==
    LET S == {seq[i] : i \in 1..Len(seq)}
    IN  CHOOSE x \in S : \A y \in S : DTLeq(y, x)

(***************************************************************************)
(* TimeframePolicy                                                         *)
(***************************************************************************)
timeframes == <<"day", "week", "month", "quarter", "year", "5year">>

\* get_timeframe_range with the quarter taken for two months
get_timeframe_range_short_quarter(end, timeframe) ==
    MinusDays(end, CASE timeframe = "day"     -> 1
                     [] timeframe = "week"    -> 7
                     [] timeframe = "month"   -> 30
                     [] timeframe = "quarter" -> 60
                     [] timeframe = "year"    -> 365
                     [] timeframe = "5year"   -> 1825
                     [] OTHER                 -> 30)

get_timeframe_range(end, timeframe) ==
    MinusDays(end, CASE timeframe = "day"     -> 1
                     [] timeframe = "week"    -> 7
                     [] timeframe = "month"   -> 30
                     [] timeframe = "quarter" -> 90
                     [] timeframe = "year"    -> 365
                     [] timeframe = "5year"   -> 1825
                     [] OTHER                 -> 30)

get_default_interval(timeframe) ==
    CASE timeframe = "day"     -> "30min"
      [] timeframe = "week"    -> "30min"
      [] timeframe = "month"   -> "daily"
      [] timeframe = "quarter" -> "weekly"
      [] timeframe = "year"    -> "weekly"
      [] timeframe = "5year"   -> "quarterly"
      [] OTHER                 -> "daily"

(***************************************************************************)
(* BucketKeyFunction                                                       *)
(***************************************************************************)
Midnight(d) == [d EXCEPT !.hour = 0, !.minute = 0, !.second = 0]

\* get_bucket_key with the quarter's first month computed from month, not month - 1
get_bucket_key_quarter_off(date, interval) ==
    CASE interval = "30min" ->
            [date EXCEPT !.minute = (date.minute \div 30) * 30, !.second = 0]
      [] interval = "daily" -> Midnight(date)
      [] interval = "weekly" ->
            LET days_since_monday == Weekday(date)
            IN  Midnight(MinusDays(date, days_since_monday))
      [] interval = "monthly" -> Midnight([date EXCEPT !.day = 1])
      [] interval = "quarterly" ->
            LET quarter_month == (date.month \div 3) * 3 + 1
            IN  Midnight([date EXCEPT !.month = quarter_month, !.day = 1])
      [] interval = "yearly" -> Midnight([date EXCEPT !.month = 1, !.day = 1])
      [] OTHER -> Midnight(date)

\* get_bucket_key with the yearly key keeping the day of the month
get_bucket_key_year_keeps_day(date, interval) ==
    CASE interval = "30min" ->
            [date EXCEPT !.minute = (date.minute \div 30) * 30, !.second = 0]
      [] interval = "daily" -> Midnight(date)
      [] interval = "weekly" ->
            LET days_since_monday == Weekday(date)
            IN  Midnight(MinusDays(date, days_since_monday))
      [] interval = "monthly" -> Midnight([date EXCEPT !.day = 1])
      [] interval = "quarterly" ->
            LET quarter_month == ((date.month - 1) \div 3) * 3 + 1
            IN  Midnight([date EXCEPT !.month = quarter_month, !.day = 1])
      [] interval = "yearly" -> Midnight([date EXCEPT !.month = 1])
      [] OTHER -> Midnight(date)

get_bucket_key(date, interval) ==
    CASE interval = "30min" ->
            [date EXCEPT !.minute = (date.minute \div 30) * 30, !.second = 0]
      [] interval = "daily" -> Midnight(date)
      [] interval = "weekly" ->
            LET days_since_monday == Weekday(date)
            IN  Midnight(MinusDays(date, days_since_monday))
      [] interval = "monthly" -> Midnight([date EXCEPT !.day = 1])
      [] interval = "quarterly" ->
            LET quarter_month == ((date.month - 1) \div 3) * 3 + 1
            IN  Midnight([date EXCEPT !.month = quarter_month, !.day = 1])
      [] interval = "yearly" -> Midnight([date EXCEPT !.month = 1, !.day = 1])
      [] OTHER -> Midnight(date)

(***************************************************************************)
(* LabelFormatter                                                          *)
(***************************************************************************)
\* format_date_label with the timeframe's style taking priority over the interval
format_date_label_timeframe_first(date, timeframe, interval) ==
    CASE timeframe = "day" ->
           IF date.hour # 0 \/ date.minute # 0
           THEN <<"%H:%M", date.hour, date.minute>>
           ELSE <<"%m/%d", date.month, date.day>>
      [] timeframe = "week"    -> <<"%a %m/%d", Weekday(date), date.month, date.day>>
      [] timeframe = "month"   -> <<"%m/%d", date.month, date.day>>
      [] timeframe = "quarter" -> <<"%m/%d", date.month, date.day>>
      [] timeframe = "year"    -> <<"%b %Y", date.month, date.year>>
      [] timeframe = "5year"   -> <<"%Y Q", date.year, (date.month - 1) \div 3 + 1>>
      [] OTHER ->
         CASE interval = "30min"     -> <<"%H:%M", date.hour, date.minute>>
           [] interval = "daily"     -> <<"%m/%d", date.month, date.day>>
           [] interval = "weekly"    -> <<"W%W %m/%d", WeekOfYear(date), date.month, date.day>>
           [] interval = "monthly"   -> <<"%b %Y", date.month, date.year>>
           [] interval = "quarterly" -> <<"%Y Q", date.year, (date.month - 1) \div 3 + 1>>
           [] interval = "yearly"    -> <<"%Y", date.year>>
           [] OTHER -> <<"%Y-%m-%d", date.year, date.month, date.day>>

format_date_label(date, timeframe, interval) ==
    CASE interval = "30min"     -> <<"%H:%M", date.hour, date.minute>>
      [] interval = "daily"     -> <<"%m/%d", date.month, date.day>>
      [] interval = "weekly"    -> <<"W%W %m/%d", WeekOfYear(date), date.month, date.day>>
      [] interval = "monthly"   -> <<"%b %Y", date.month, date.year>>
      [] interval = "quarterly" -> <<"%Y Q", date.year, (date.month - 1) \div 3 + 1>>
      [] interval = "yearly"    -> <<"%Y", date.year>>
      [] OTHER ->
         CASE timeframe = "day" ->
                IF date.hour # 0 \/ date.minute # 0
                THEN <<"%H:%M", date.hour, date.minute>>
                ELSE <<"%m/%d", date.month, date.day>>
           [] timeframe = "week"    -> <<"%a %m/%d", Weekday(date), date.month, date.day>>
           [] timeframe = "month"   -> <<"%m/%d", date.month, date.day>>
           [] timeframe = "quarter" -> <<"%m/%d", date.month, date.day>>
           [] timeframe = "year"    -> <<"%b %Y", date.month, date.year>>
           [] timeframe = "5year"   -> <<"%Y Q", date.year, (date.month - 1) \div 3 + 1>>
           [] OTHER -> <<"%Y-%m-%d", date.year, date.month, date.day>>

(***************************************************************************)
(* Aggregator                                                              *)
(***************************************************************************)
\* FilteredIndices with the window open at its start
FilteredIndices_open_start(dates, start_date, end) ==
    LET InRange(i) == DTLess(start_date, dates[i]) /\ DTLeq(dates[i], end)
    IN  SelectSeq([i \in 1..Len(dates) |-> i], InRange)

\* the indices of the events with start_date <= date <= end_date, in input order
FilteredIndices(dates, start_date, end) ==
    LET InRange(i) == DTLeq(start_date, dates[i]) /\ DTLeq(dates[i], end)
    IN  SelectSeq([i \in 1..Len(dates) |-> i], InRange)

\* aggregated: bucket key -> the dates and values appended to the bucket, in order
Aggregated(filtered_dates, filtered_values, interval) ==
    LET n    == Len(filtered_dates)
        keys == {get_bucket_key(filtered_dates[i], interval) : i \in 1..n}
    IN  [bucket \in keys |->
            LET Here(i) == get_bucket_key(filtered_dates[i], interval) = bucket
                idx     == SelectSeq([i \in 1..n |-> i], Here)
            IN  [dates  |-> [j \in 1..Len(idx) |-> filtered_dates[idx[j]]],
                 values |-> [j \in 1..Len(idx) |-> filtered_values[idx[j]]]]]

\* BucketValue taking the first value of the bucket
BucketValue_first(bucket_values) == bucket_values[1]

\* the value a bucket contributes to the output
BucketValue(bucket_values) == bucket_values[Len(bucket_values)]

\* NeedsStartPoint with >= for >
NeedsStartPoint_or_equal(sorted_buckets, start_date) ==
    sorted_buckets # <<>> /\ DTLeq(start_date, sorted_buckets[1])

\* NeedsStartPoint never adding the point
NeedsStartPoint_never(sorted_buckets, start_date) == FALSE

\* whether the synthetic starting point is added
NeedsStartPoint(sorted_buckets, start_date) ==
    sorted_buckets # <<>> /\ DTLess(start_date, sorted_buckets[1])

\* EmptyWindowSeries returning the single point of the end date
EmptyWindowSeries_one_point(start_date, end, timeframe, interval, base_value) ==
    [labels |-> <<format_date_label(end, timeframe, interval)>>,
     data   |-> <<base_value>>]

\* no trades in the timeframe: a flat line at the base value
EmptyWindowSeries(start_date, end, timeframe, interval, base_value) ==
    [labels |-> <<format_date_label(start_date, timeframe, interval),
                  format_date_label(end, timeframe, interval)>>,
     data   |-> <<base_value, base_value>>]

\* the starting point, if needed, followed by one point per bucket in key order
BucketSeries(aggregated, sorted_buckets, lead, start_date, timeframe, interval, base_value) ==
    [labels |-> (IF lead THEN <<format_date_label(start_date, timeframe, interval)>>
                 ELSE <<>>) \o
                [j \in 1..Len(sorted_buckets) |->
                    format_date_label(sorted_buckets[j], timeframe, interval)],
     data   |-> (IF lead THEN <<base_value>> ELSE <<>>) \o
                [j \in 1..Len(sorted_buckets) |->
                    BucketValue(aggregated[sorted_buckets[j]].values)]]

SortedBucketSeries(aggregated, sorted_buckets, start_date, timeframe, interval, base_value) ==
    BucketSeries(aggregated, sorted_buckets,
                 NeedsStartPoint(sorted_buckets, start_date),
                 start_date, timeframe, interval, base_value)

AggregatedSeries(aggregated, start_date, timeframe, interval, base_value) ==
    SortedBucketSeries(aggregated, SortedDT(DOMAIN aggregated), start_date,
                       timeframe, interval, base_value)

\* the events picked by idx
Pick(seq, idx) == [j \in 1..Len(idx) |-> seq[idx[j]]]

FilteredSeries(filtered_dates, filtered_values, start_date, timeframe, interval, end, base_value) ==
    IF filtered_dates = <<>>
    THEN EmptyWindowSeries(start_date, end, timeframe, interval, base_value)
    ELSE AggregatedSeries(Aggregated(filtered_dates, filtered_values, interval),
                          start_date, timeframe, interval, base_value)

WindowSeries(dates, values, idx, start_date, timeframe, interval, end, base_value) ==
    FilteredSeries(Pick(dates, idx), Pick(values, idx), start_date, timeframe,
                   interval, end, base_value)

RangeSeries(dates, values, start_date, timeframe, interval, end, base_value) ==
    WindowSeries(dates, values, FilteredIndices(dates, start_date, end), start_date,
                 timeframe, interval, end, base_value)

filter_and_aggregate_by_timeframe(dates, values, timeframe, interval, end, base_value) ==
    RangeSeries(dates, values, get_timeframe_range(end, timeframe), timeframe,
                interval, end, base_value)

(***************************************************************************)
(* EventSeries Builder                                                     *)
(*                                                                         *)
(* A trade is a record holding the keys it has.  A date string YYYY-MM-DD  *)
(* is the tuple <<y, m, d>>, a time string the tuple of its colon-         *)
(* separated fields (<<h, m>> is HH:MM, <<h, m, s>> is HH:MM:SS); the      *)
(* empty string and null are <<>>.                                         *)
(***************************************************************************)
\* dict.get(key, default)
Get(dict, key, default) == IF key \in DOMAIN dict THEN dict[key] ELSE default

\* datetime.fromisoformat of a date and three time fields; None for ValueError
FromIsoFields(date_str, tm) ==
    IF /\ Len(date_str) = 3
       /\ date_str[1] \in 1..9999
       /\ date_str[2] \in 1..12
       /\ date_str[3] >= 1
       /\ date_str[3] <= DaysInMonth(date_str[1], date_str[2])
       /\ tm[1] \in 0..23 /\ tm[2] \in 0..59 /\ tm[3] \in 0..59
    THEN DT(date_str[1], date_str[2], date_str[3], tm[1], tm[2], tm[3])
    ELSE None

\* the time fields of datetime_str: HH:MM gets ":00", HH:MM:SS is kept, anything
\* else (and no time) leaves the date alone
TimeFields(time_str) ==
    IF Len(time_str) - 1 = 1 THEN time_str \o <<0>>
    ELSE IF Len(time_str) - 1 = 2 THEN time_str
    ELSE <<0, 0, 0>>

ParseDateTime(date_str, time_str) ==
    IF date_str = <<>> THEN None
    ELSE FromIsoFields(date_str, TimeFields(time_str))

parse_trade_datetime(trade) ==
    ParseDateTime(Get(trade, "exit_date", Get(trade, "entry_date", <<>>)),
                  Get(trade, "exit_time", Get(trade, "entry_time", <<>>)))

\* the trades parse_trade_datetime gives a datetime for, in record order
ParsableTrades(trade_list) ==
    SelectSeq(trade_list, LAMBDA trade : parse_trade_datetime(trade) # None)

\* InsertByDate placing a trade before the trades of the same timestamp
RECURSIVE InsertByDate_before_equal(_, _)
InsertByDate_before_equal(sorted, trade) ==
    IF sorted = <<>> THEN <<trade>>
    ELSE IF DTLeq(parse_trade_datetime(trade),
                  parse_trade_datetime(sorted[Len(sorted)]))
         THEN InsertByDate_before_equal(SubSeq(sorted, 1, Len(sorted) - 1), trade)
              \o <<sorted[Len(sorted)]>>
         ELSE sorted \o <<trade>>

\* list.sort(key=parse_trade_datetime): stable, ascending
RECURSIVE InsertByDate(_, _)
InsertByDate(sorted, trade) ==
    IF sorted = <<>> THEN <<trade>>
    ELSE IF DTLess(parse_trade_datetime(trade),
                   parse_trade_datetime(sorted[Len(sorted)]))
         THEN InsertByDate(SubSeq(sorted, 1, Len(sorted) - 1), trade)
              \o <<sorted[Len(sorted)]>>
         ELSE sorted \o <<trade>>

RECURSIVE SortByDate(_)
SortByDate(trade_list) ==
    IF trade_list = <<>> THEN <<>>
    ELSE InsertByDate(SortByDate(SubSeq(trade_list, 1, Len(trade_list) - 1)),
                      trade_list[Len(trade_list)])

SortedTrades(trade_list) == SortByDate(ParsableTrades(trade_list))

\* sum(row.get("amount", 0) for row in rows)
RECURSIVE SumAmounts(_)
SumAmounts(rows) ==
    IF rows = <<>> THEN 0
    ELSE Get(rows[1], "amount", 0) + SumAmounts(Tail(rows))

\* starting_balance + total_deposits - total_withdrawals
NetDeposits(config) ==
    Get(config, "starting_balance", 0)
    + SumAmounts(Get(config, "deposits", <<>>))
    - SumAmounts(Get(config, "withdrawals", <<>>))

\* CumulativePnl taking the P&L of the k-th trade alone
CumulativePnl_last_trade(trade_list, k) ==
    IF k = 0 THEN 0 ELSE Get(trade_list[k], "pnl_usd", 0)

\* cumulative_pnl after the first k trades of the list
RECURSIVE CumulativePnl(_, _)
CumulativePnl(trade_list, k) ==
    IF k = 0 THEN 0
    ELSE CumulativePnl(trade_list, k - 1) + Get(trade_list[k], "pnl_usd", 0)

TradeDates(sorted) == [k \in 1..Len(sorted) |-> parse_trade_datetime(sorted[k])]

\* EndDate taking the first trade for the most recent
EndDate_first(dates, clock) == IF dates # <<>> THEN dates[1] ELSE clock

\* EndDate always reading the clock
EndDate_clock(dates, clock) == clock

\* the reference end date: the most recent trade, or the current moment
EndDate(dates, clock) == IF dates # <<>> THEN MaxDT(dates) ELSE clock

(***************************************************************************)
(* generate_portfolio_value_charts                                         *)
(***************************************************************************)
PortfolioValues(sorted, base_value) ==
    [k \in 1..Len(sorted) |-> base_value + CumulativePnl(sorted, k)]

InRange(date, start_date, end) ==
    date # None /\ DTLeq(start_date, date) /\ DTLeq(date, end)

\* DayTrades leaving out the trades at the window start
DayTrades_after_start(sorted, start_date, end) ==
    SelectSeq(sorted, LAMBDA t : /\ InRange(parse_trade_datetime(t), start_date, end)
                                 /\ parse_trade_datetime(t) # start_date)

\* DayTrades leaving out the trades at the end date
DayTrades_before_end(sorted, start_date, end) ==
    SelectSeq(sorted, LAMBDA t : /\ InRange(parse_trade_datetime(t), start_date, end)
                                 /\ parse_trade_datetime(t) # end)

\* the trades of the sorted list with start_date <= timestamp <= end
DayTrades(sorted, start_date, end) ==
    SelectSeq(sorted, LAMBDA t : InRange(parse_trade_datetime(t), start_date, end))

\* IsBefore counting the trade at the window start as well
IsBefore_or_at(date, start_date) == date # None /\ DTLeq(date, start_date)

IsBefore(date, start_date) == date # None /\ DTLess(date, start_date)

\* cumulative_pnl_before_day: the P&L of the trades strictly before start_date
RECURSIVE PnlBefore(_, _)
PnlBefore(sorted, start_date) ==
    IF sorted = <<>> THEN 0
    ELSE (IF IsBefore(parse_trade_datetime(sorted[1]), start_date)
          THEN Get(sorted[1], "pnl_usd", 0) ELSE 0)
         + PnlBefore(Tail(sorted), start_date)

\* PortfolioChart handing 0 instead of the base value to the aggregation
PortfolioChart_zero_base(dates, values, timeframe, interval, end, base_value) ==
    filter_and_aggregate_by_timeframe(dates, values, timeframe, interval, end, 0)

PortfolioChart(dates, values, timeframe, interval, end, base_value) ==
    filter_and_aggregate_by_timeframe(dates, values, timeframe, interval, end, base_value)

\* FlatDay with the end point left out
FlatDay_one_point(start_date, end, interval, value) ==
    [labels |-> <<format_date_label(start_date, "day", interval)>>,
     data   |-> <<value>>]

\* the flat line of a day without trades
FlatDay(start_date, end, interval, value) ==
    [labels |-> <<format_date_label(start_date, "day", interval),
                  format_date_label(end, "day", interval)>>,
     data   |-> <<value, value>>]

PortfolioDaySeries(day_trades, start_date, end, at_day_start, interval) ==
    IF day_trades = <<>>
    THEN FlatDay(start_date, end, interval, at_day_start)
    ELSE filter_and_aggregate_by_timeframe(
             TradeDates(day_trades),
             [k \in 1..Len(day_trades) |-> at_day_start + CumulativePnl(day_trades, k)],
             "day", interval, end, at_day_start)

\* PortfolioDayFrom handing the global base value to the aggregation
PortfolioDayFrom_global_base(sorted, start_date, end, base_value) ==
    PortfolioDaySeries(DayTrades(sorted, start_date, end), start_date, end,
                       base_value, get_default_interval("day"))

PortfolioDayFrom(sorted, start_date, end, base_value) ==
    PortfolioDaySeries(DayTrades(sorted, start_date, end), start_date, end,
                       base_value + PnlBefore(sorted, start_date),
                       get_default_interval("day"))

PortfolioDayChart(sorted, end, base_value) ==
    PortfolioDayFrom(sorted, MinusDays(end, 1), end, base_value)

(***************************************************************************)
(* generate_total_return_charts                                            *)
(*                                                                         *)
(* A return percentage is the exact fraction [num, den] of the float the   *)
(* script computes; round(v, 2) gives it in hundredths of a percent.       *)
(***************************************************************************)
\* StartingInvestment without the guard against a zero denominator
StartingInvestment_unguarded(config) == NetDeposits(config)

StartingInvestment(config) ==
    IF NetDeposits(config) = 0 THEN 1 ELSE NetDeposits(config)

Pct(pnl, denominator) == [num |-> pnl * 100, den |-> denominator]

Zero == [num |-> 0, den |-> 1]

\* n / d (d > 0) rounded to the nearest integer, ties to even
RoundHalfEven(fl, rm, d) ==
    IF 2 * rm > d THEN fl + 1
    ELSE IF 2 * rm < d THEN fl
    ELSE IF fl % 2 = 0 THEN fl ELSE fl + 1

RoundDiv(n, d) == RoundHalfEven(n \div d, n % d, d)

\* round(v, 2), in hundredths
Round2(v) ==
    IF v.den < 0 THEN RoundDiv(0 - v.num * 100, 0 - v.den)
    ELSE RoundDiv(v.num * 100, v.den)

ReturnPercentages(sorted, starting_investment) ==
    [k \in 1..Len(sorted) |-> Pct(CumulativePnl(sorted, k), starting_investment)]

RoundSeries(series) ==
    [labels |-> series.labels,
     data   |-> [j \in 1..Len(series.data) |-> Round2(series.data[j])]]

ReturnChart(dates, values, timeframe, interval, end) ==
    RoundSeries(filter_and_aggregate_by_timeframe(dates, values, timeframe, interval,
                                                  end, Zero))

\* portfolio_value_at_day_start with its guard against division by zero
NonZeroDayStart(at_start, starting_investment) ==
    IF at_start = 0
    THEN (IF starting_investment > 0 THEN starting_investment ELSE 1)
    ELSE at_start

\* the denominator of the day returns
DayStartValue(sorted, start_date, starting_investment) ==
    NonZeroDayStart(starting_investment + PnlBefore(sorted, start_date),
                    starting_investment)

\* ReturnDaySeries with the P&L before the window counted in the day's return
ReturnDaySeries_total_pnl(sorted, day_trades, start_date, end, starting_investment, interval) ==
    IF day_trades = <<>>
    THEN FlatDay(start_date, end, interval, 0)
    ELSE RoundSeries(filter_and_aggregate_by_timeframe(
             TradeDates(day_trades),
             [k \in 1..Len(day_trades) |->
                 Pct(CumulativePnl(day_trades, k) + PnlBefore(sorted, start_date),
                     DayStartValue(sorted, start_date, starting_investment))],
             "day", interval, end, Zero))

ReturnDaySeries(sorted, day_trades, start_date, end, starting_investment, interval) ==
    IF day_trades = <<>>
    THEN FlatDay(start_date, end, interval, 0)
    ELSE RoundSeries(filter_and_aggregate_by_timeframe(
             TradeDates(day_trades),
             [k \in 1..Len(day_trades) |->
                 Pct(CumulativePnl(day_trades, k),
                     DayStartValue(sorted, start_date, starting_investment))],
             "day", interval, end, Zero))

ReturnDayFrom(sorted, start_date, end, starting_investment) ==
    ReturnDaySeries(sorted, DayTrades(sorted, start_date, end), start_date, end,
                    starting_investment, get_default_interval("day"))

ReturnDayChart(sorted, end, starting_investment) ==
    ReturnDayFrom(sorted, MinusDays(end, 1), end, starting_investment)

(***************************************************************************)
(* Inputs of the checks of the pure functions                              *)
(***************************************************************************)
Intervals == {"30min", "daily", "weekly", "monthly", "quarterly", "yearly", "hourly"}

Timeframes == {"day", "week", "month", "quarter", "year", "5year", "decade"}

KeyDays == {<<2025, 3, 17>>, <<2025, 3, 16>>, <<2025, 3, 23>>, <<2025, 3, 1>>,
            <<2025, 1, 1>>, <<2024, 12, 31>>, <<2024, 2, 29>>, <<2024, 3, 1>>,
            <<2025, 6, 30>>, <<2025, 7, 1>>, <<2025, 10, 5>>, <<2025, 12, 31>>,
            <<2024, 1, 1>>, <<2023, 1, 1>>}

KeyTimes == {<<0, 0, 0>>, <<0, 29, 59>>, <<0, 30, 0>>, <<14, 30, 0>>,
             <<14, 47, 0>>, <<23, 59, 59>>}

KeyDates == {DT(d[1], d[2], d[3], t[1], t[2], t[3]) : d \in KeyDays, t \in KeyTimes}


PipelineIdle ==
    /\ trades = <<>>
    /\ account_config = [starting_balance |-> 0, deposits |-> <<>>, withdrawals |-> <<>>]
    /\ run = 0
    /\ timeframe_idx = 0
    /\ sorted_trades = <<>>
    /\ trade_dates = <<>>
    /\ series_values = <<>>
    /\ end_date = None
    /\ files = <<>>
    /\ first_files = <<>>
    /\ now = None

(***************************************************************************)
(* get_bucket_key and the TimeframePolicy applied to one timestamp         *)
(***************************************************************************)
InitKey ==
    /\ PipelineIdle
    /\ pc = "call"
    /\ \E date \in KeyDates, interval \in Intervals, timeframe \in Timeframes :
          args = [date |-> date, interval |-> interval, timeframe |-> timeframe]
    /\ ret = [bucket |-> None, start_date |-> None, default_interval |-> "",
              default_bucket |-> None]

KeyAndPolicy ==
    /\ pc = "call"
    /\ pc' = "return"
    /\ ret' = [bucket |-> get_bucket_key(args.date, args.interval),
               start_date |-> get_timeframe_range(args.date, args.timeframe),
               default_interval |-> get_default_interval(args.timeframe),
               default_bucket |->
                   get_bucket_key(args.date, get_default_interval(args.timeframe))]
    /\ UNCHANGED <<args, pipeline_vars>>

NextKey == KeyAndPolicy

SpecKey == InitKey /\ [][NextKey]_vars

(***************************************************************************)
(* format_date_label applied to one timestamp                              *)
(***************************************************************************)
\* interval=None, the default of the parameter
NoInterval == "None"

LabelIntervals == Intervals \cup {NoInterval}

InitLabel ==
    /\ PipelineIdle
    /\ pc = "call"
    /\ \E date \in KeyDates, timeframe \in Timeframes, interval \in LabelIntervals :
          args = [date |-> date, timeframe |-> timeframe, interval |-> interval]
    /\ ret = [label |-> <<>>]

FormatLabel ==
    /\ pc = "call"
    /\ pc' = "return"
    /\ ret' = [label |-> format_date_label(args.date, args.timeframe, args.interval)]
    /\ UNCHANGED <<args, pipeline_vars>>

NextLabel == FormatLabel

SpecLabel == InitLabel /\ [][NextLabel]_vars

(***************************************************************************)
(* filter_and_aggregate_by_timeframe applied to one event series           *)
(***************************************************************************)
MaxEvents == 3

\* the end date is aligned to a 30-minute bucket, so that a bucket key can equal start
AggEnds == {DT(2025, 3, 17, 14, 30, 0)}

\* the end date, a later event of the same 30-minute bucket, an earlier event of the
\* same day, the starts of the day and week windows, and an event before every window
AggDates == AggEnds \cup
            {DT(2025, 3, 17, 14, 47, 0), DT(2025, 3, 17, 14, 10, 0),
             DT(2025, 3, 16, 14, 30, 0), DT(2025, 3, 10, 14, 30, 0),
             DT(2020, 1, 1, 0, 0, 0)}

AggValues(n) == {[i \in 1..n |-> 10 * i], [i \in 1..n |-> 10 * (n + 1 - i)]}

AggBases == {1000}

\* the buckets of the events picked by idx
WindowBuckets(dates, values, idx, interval) ==
    Aggregated(Pick(dates, idx), Pick(values, idx), interval)

InitAgg ==
    /\ PipelineIdle
    /\ pc = "call"
    /\ \E n \in 0..MaxEvents :
         \E dates \in [1..n -> AggDates], values \in AggValues(n),
            timeframe \in Timeframes, interval \in Intervals, end \in AggEnds,
            base_value \in AggBases :
              args = [dates |-> dates, values |-> values, timeframe |-> timeframe,
                      interval |-> interval, end_date |-> end, base_value |-> base_value]
    /\ ret = [series |-> [labels |-> <<>>, data |-> <<>>], aggregated |-> <<>>]

Aggregate ==
    /\ pc = "call"
    /\ pc' = "return"
    /\ ret' = [series |-> filter_and_aggregate_by_timeframe(args.dates, args.values,
                              args.timeframe, args.interval, args.end_date,
                              args.base_value),
               aggregated |-> WindowBuckets(args.dates, args.values,
                                 FilteredIndices(args.dates,
                                     get_timeframe_range(args.end_date, args.timeframe),
                                     args.end_date),
                                 args.interval)]
    /\ UNCHANGED <<args, pipeline_vars>>

NextAgg == Aggregate

SpecAgg == InitAgg /\ [][NextAgg]_vars


(***************************************************************************)
(* main: the two chart generators, run once and then once more on the      *)
(* same input                                                              *)
(***************************************************************************)
MaxTrades == 2

T0 == <<2025, 3, 17>>

TradePool ==
    { \* exit at t = 2025-03-17T14:47, no pnl_usd
      [exit_date |-> T0, exit_time |-> <<14, 47>>],
      \* exit at t - 2h
      [exit_date |-> T0, exit_time |-> <<12, 47, 0>>, pnl_usd |-> 50],
      \* exit at t - 48h
      [exit_date |-> <<2025, 3, 15>>, exit_time |-> <<14, 47>>, pnl_usd |-> 100],
      \* exit at t - 24h, the start of the day window
      [exit_date |-> <<2025, 3, 16>>, exit_time |-> <<14, 47>>, pnl_usd |-> -100],
      \* no exit keys: the entry timestamp, equal to t
      [entry_date |-> T0, entry_time |-> <<14, 47>>, pnl_usd |-> 20],
      \* a date that does not exist
      [exit_date |-> <<2025, 2, 30>>, exit_time |-> <<10, 0>>, pnl_usd |-> 7],
      \* exit date without exit time, entry date and time present
      [exit_date |-> T0, entry_date |-> <<2025, 3, 10>>, entry_time |-> <<9, 30>>,
       pnl_usd |-> 30],
      \* empty exit date, entry date and time present
      [exit_date |-> <<>>, entry_date |-> T0, entry_time |-> <<9, 30>>, pnl_usd |-> 5],
      \* date only, before the week window of t
      [exit_date |-> <<2025, 3, 1>>, pnl_usd |-> -1000] }

ConfigPool ==
    { [starting_balance |-> 400, deposits |-> <<[amount |-> 500], [amount |-> 200]>>,
       withdrawals |-> <<[amount |-> 100]>>],
      [starting_balance |-> 0, deposits |-> <<>>, withdrawals |-> <<>>],
      [starting_balance |-> 100, deposits |-> <<[amount |-> 300]>>,
       withdrawals |-> <<[amount |-> 500]>>] }

ClockStart == DT(2025, 4, 2, 8, 15, 30)

ClockLater == {DT(2025, 4, 2, 11, 40, 5)}

Init ==
    /\ \E n \in 0..MaxTrades : trades \in [1..n -> TradePool]
    /\ account_config \in ConfigPool
    /\ pc = "portfolio_value"
    /\ run = 1
    /\ timeframe_idx = 1
    /\ sorted_trades = <<>>
    /\ trade_dates = <<>>
    /\ series_values = <<>>
    /\ end_date = None
    /\ files = <<>>
    /\ first_files = <<>>
    /\ now = ClockStart
    /\ args = <<>>
    /\ ret = <<>>

\* WriteFile with an output path that leaves the timeframe out
WriteFile_shared_path(fs, output_path, chart_data) ==
    [path \in DOMAIN fs \cup {<<output_path[1], "day">>} |->
        IF path = <<output_path[1], "day">> THEN chart_data ELSE fs[path]]

\* open(output_path, "w") and json.dump(chart_data)
WriteFile(fs, output_path, chart_data) ==
    [path \in DOMAIN fs \cup {output_path} |->
        IF path = output_path THEN chart_data ELSE fs[path]]

\* generate_portfolio_value_charts up to its loop: the event series and the end date
PortfolioBuild ==
    /\ pc = "portfolio_value"
    /\ sorted_trades' = SortedTrades(trades)
    /\ trade_dates' = TradeDates(sorted_trades')
    /\ series_values' = PortfolioValues(sorted_trades', NetDeposits(account_config))
    /\ end_date' = EndDate(trade_dates', now)
    /\ timeframe_idx' = 1
    /\ pc' = "portfolio_value_loop"
    /\ UNCHANGED <<trades, account_config, run, files, first_files, now, args, ret>>

\* one iteration of the loop over timeframes of generate_portfolio_value_charts
PortfolioTimeframe ==
    /\ pc = "portfolio_value_loop"
    /\ LET timeframe  == timeframes[timeframe_idx]
           base_value == NetDeposits(account_config)
           chart_data ==
               IF timeframe = "day"
               THEN PortfolioDayChart(sorted_trades, end_date, base_value)
               ELSE PortfolioChart(trade_dates, series_values, timeframe,
                                   get_default_interval(timeframe), end_date, base_value)
       IN  files' = WriteFile(files, <<"portfolio-value", timeframe>>, chart_data)
    /\ IF timeframe_idx < Len(timeframes)
       THEN timeframe_idx' = timeframe_idx + 1 /\ pc' = pc
       ELSE timeframe_idx' = 1 /\ pc' = "total_return"
    /\ UNCHANGED <<trades, account_config, run, sorted_trades, trade_dates,
                   series_values, end_date, first_files, now, args, ret>>

\* generate_total_return_charts up to its loop
ReturnBuild ==
    /\ pc = "total_return"
    /\ sorted_trades' = SortedTrades(trades)
    /\ trade_dates' = TradeDates(sorted_trades')
    /\ series_values' = ReturnPercentages(sorted_trades', StartingInvestment(account_config))
    /\ end_date' = EndDate(trade_dates', now)
    /\ timeframe_idx' = 1
    /\ pc' = "total_return_loop"
    /\ UNCHANGED <<trades, account_config, run, files, first_files, now, args, ret>>

\* one iteration of the loop over timeframes of generate_total_return_charts
ReturnTimeframe ==
    /\ pc = "total_return_loop"
    /\ LET timeframe  == timeframes[timeframe_idx]
           chart_data ==
               IF timeframe = "day"
               THEN ReturnDayChart(sorted_trades, end_date,
                                   StartingInvestment(account_config))
               ELSE ReturnChart(trade_dates, series_values, timeframe,
                                get_default_interval(timeframe), end_date)
       IN  files' = WriteFile(files, <<"total-return", timeframe>>, chart_data)
    /\ IF timeframe_idx < Len(timeframes)
       THEN timeframe_idx' = timeframe_idx + 1 /\ pc' = pc
       ELSE timeframe_idx' = 1 /\ pc' = "done"
    /\ UNCHANGED <<trades, account_config, run, sorted_trades, trade_dates,
                   series_values, end_date, first_files, now, args, ret>>

\* the script is invoked again, later, on the same trades and account configuration
Rerun ==
    /\ pc = "done"
    /\ run = 1
    /\ run' = 2
    /\ first_files' = files
    /\ now' \in ClockLater
    /\ pc' = "portfolio_value"
    /\ UNCHANGED <<trades, account_config, timeframe_idx, sorted_trades, trade_dates,
                   series_values, end_date, files, args, ret>>

Next ==
    \/ PortfolioBuild
    \/ PortfolioTimeframe
    \/ ReturnBuild
    \/ ReturnTimeframe
    \/ Rerun

Spec == Init /\ [][Next]_vars

(***************************************************************************)
(* The loops over the timeframes with their iterations taken in any order: *)
(* args is the set of the iterations of the current loop still to run.     *)
(***************************************************************************)
\* the body of the loop of generate_portfolio_value_charts up to chart_data
PortfolioChartData(timeframe, sorted, dates, values, end, base_value) ==
    IF timeframe = "day"
    THEN PortfolioDayChart(sorted, end, base_value)
    ELSE PortfolioChart(dates, values, timeframe, get_default_interval(timeframe),
                        end, base_value)

\* the body of the loop of generate_total_return_charts up to chart_data
ReturnChartData(timeframe, sorted, dates, values, end, starting_investment) ==
    IF timeframe = "day"
    THEN ReturnDayChart(sorted, end, starting_investment)
    ELSE ReturnChart(dates, values, timeframe, get_default_interval(timeframe), end)

OrderTradePool ==
    { [exit_date |-> T0, exit_time |-> <<12, 47, 0>>, pnl_usd |-> 50],
      [exit_date |-> <<2025, 3, 15>>, exit_time |-> <<14, 47>>, pnl_usd |-> 100],
      [exit_date |-> <<2025, 3, 1>>, pnl_usd |-> -1000] }

OrderConfigPool ==
    { [starting_balance |-> 400, deposits |-> <<[amount |-> 500], [amount |-> 200]>>,
       withdrawals |-> <<[amount |-> 100]>>] }

InitAnyOrder ==
    /\ \E n \in 0..MaxTrades : trades \in [1..n -> OrderTradePool]
    /\ account_config \in OrderConfigPool
    /\ pc = "portfolio_value"
    /\ run = 1
    /\ timeframe_idx = 1
    /\ sorted_trades = <<>>
    /\ trade_dates = <<>>
    /\ series_values = <<>>
    /\ end_date = None
    /\ files = <<>>
    /\ first_files = <<>>
    /\ now = ClockStart
    /\ args = 1..Len(timeframes)
    /\ ret = <<>>

PortfolioTimeframeAny ==
    /\ pc = "portfolio_value_loop"
    /\ \E i \in args :
          /\ timeframe_idx' = i
          /\ files' = WriteFile(files, <<"portfolio-value", timeframes[i]>>,
                                PortfolioChartData(timeframes[i], sorted_trades,
                                    trade_dates, series_values, end_date,
                                    NetDeposits(account_config)))
          /\ IF args = {i}
             THEN args' = 1..Len(timeframes) /\ pc' = "total_return"
             ELSE args' = args \ {i} /\ pc' = pc
    /\ UNCHANGED <<trades, account_config, run, sorted_trades, trade_dates,
                   series_values, end_date, first_files, now, ret>>

ReturnTimeframeAny ==
    /\ pc = "total_return_loop"
    /\ \E i \in args :
          /\ timeframe_idx' = i
          /\ files' = WriteFile(files, <<"total-return", timeframes[i]>>,
                                ReturnChartData(timeframes[i], sorted_trades,
                                    trade_dates, series_values, end_date,
                                    StartingInvestment(account_config)))
          /\ IF args = {i}
             THEN args' = {} /\ pc' = "done"
             ELSE args' = args \ {i} /\ pc' = pc
    /\ UNCHANGED <<trades, account_config, run, sorted_trades, trade_dates,
                   series_values, end_date, first_files, now, ret>>

NextAnyOrder ==
    \/ PortfolioBuild
    \/ PortfolioTimeframeAny
    \/ ReturnBuild
    \/ ReturnTimeframeAny

SpecAnyOrder == InitAnyOrder /\ [][NextAnyOrder]_vars

(***************************************************************************)
(* The statistics of generate_analytics.py that reduce the trade list:     *)
(* calculate_profit_factor and aggregate_by_tag.                           *)
(*                                                                         *)
(* A P&L is a whole number of dollars; a result rounded to two places is   *)
(* in hundredths, a win rate (one place) in tenths of a percent.  A tag    *)
(* value is [list, items]: a string s is Str(s), a list its items, and     *)
(* None has no item.                                                       *)
(***************************************************************************)
\* 999.99, in hundredths
MAX_PROFIT_FACTOR == 99999

Str(s) == [list |-> FALSE, items |-> <<s>>]

List(items) == [list |-> TRUE, items |-> items]

NoneTag == [list |-> FALSE, items |-> <<>>]

RECURSIVE GrossProfit(_)
GrossProfit(trade_list) ==
    IF trade_list = <<>> THEN 0
    ELSE (IF Get(trade_list[1], "pnl_usd", 0) > 0 THEN trade_list[1].pnl_usd ELSE 0)
         + GrossProfit(Tail(trade_list))

\* abs(gross_loss)
RECURSIVE GrossLoss(_)
GrossLoss(trade_list) ==
    IF trade_list = <<>> THEN 0
    ELSE (IF Get(trade_list[1], "pnl_usd", 0) < 0 THEN 0 - trade_list[1].pnl_usd ELSE 0)
         + GrossLoss(Tail(trade_list))

calculate_profit_factor(trade_list) ==
    IF trade_list = <<>> THEN 0
    ELSE IF GrossLoss(trade_list) = 0
    THEN (IF GrossProfit(trade_list) = 0 THEN 0 ELSE MAX_PROFIT_FACTOR)
    ELSE RoundDiv(GrossProfit(trade_list) * 100, GrossLoss(trade_list))

WinCount(trade_list) ==
    Len(SelectSeq(trade_list, LAMBDA t : Get(t, "pnl_usd", 0) > 0))

LossCount(trade_list) ==
    Len(SelectSeq(trade_list, LAMBDA t : Get(t, "pnl_usd", 0) < 0))

\* (win_rate * avg_win) - (loss_rate * avg_loss): the counts cancel
calculate_expectancy(trade_list) ==
    IF trade_list = <<>> THEN 0
    ELSE Round2([num |-> GrossProfit(trade_list) - GrossLoss(trade_list),
                 den |-> Len(trade_list)])

\* the first element of a list ("Unclassified" for the empty list), else the value
\* itself; None, which is as false as "", is given as ""
FirstTag(tag_value) ==
    IF tag_value.list
    THEN (IF tag_value.items # <<>> THEN tag_value.items[1] ELSE "Unclassified")
    ELSE IF tag_value.items # <<>> THEN tag_value.items[1] ELSE ""

\* the key of aggregates the trade is appended to
TagOf(trade, tag_field) ==
    IF FirstTag(Get(trade, tag_field, NoneTag)) = "" THEN "Unclassified"
    ELSE FirstTag(Get(trade, tag_field, NoneTag))

TagTrades(trade_list, tag_field, tag_value) ==
    SelectSeq(trade_list, LAMBDA t : TagOf(t, tag_field) = tag_value)

TagStats(tag_trades) ==
    [total_trades   |-> Len(tag_trades),
     winning_trades |-> WinCount(tag_trades),
     losing_trades  |-> LossCount(tag_trades),
     win_rate       |-> RoundDiv(WinCount(tag_trades) * 1000, Len(tag_trades)),
     total_pnl      |-> 100 * (GrossProfit(tag_trades) - GrossLoss(tag_trades)),
     avg_pnl        |-> Round2([num |-> GrossProfit(tag_trades) - GrossLoss(tag_trades),
                                den |-> Len(tag_trades)]),
     expectancy     |-> calculate_expectancy(tag_trades)]

\* aggregate_by_tag with a trade appended under every element of its list
aggregate_by_tag_every_element(trade_list, tag_field) ==
    [tag_value \in {TagOf(trade_list[i], tag_field) : i \in 1..Len(trade_list)} \cup
                   (UNION {{Get(trade_list[i], tag_field, NoneTag).items[k] :
                              k \in 1..Len(Get(trade_list[i], tag_field, NoneTag).items)} :
                           i \in 1..Len(trade_list)} \ {""})
       |-> TagStats(SelectSeq(trade_list,
               LAMBDA t : \/ TagOf(t, tag_field) = tag_value
                          \/ \E k \in 1..Len(Get(t, tag_field, NoneTag).items) :
                                Get(t, tag_field, NoneTag).items[k] = tag_value))]

aggregate_by_tag(trade_list, tag_field) ==
    [tag_value \in {TagOf(trade_list[i], tag_field) : i \in 1..Len(trade_list)}
       |-> TagStats(TagTrades(trade_list, tag_field, tag_value))]

\* a win, losses, a scratch trade and a record without P&L; as tags a string, the
\* empty string, a missing field, the empty list and lists of one and two elements
AnalyticsPool ==
    { [pnl_usd |-> 50, strategy |-> Str("A"), setup_tags |-> List(<<"A", "B">>)],
      [pnl_usd |-> -20, strategy |-> Str("B"), setup_tags |-> List(<<"B">>)],
      [pnl_usd |-> 30, setup_tags |-> List(<<>>)],
      [pnl_usd |-> -25, strategy |-> Str("")],
      [strategy |-> Str("A"), setup_tags |-> List(<<"", "A">>)],
      [pnl_usd |-> 0, strategy |-> Str("B"), setup_tags |-> List(<<"B", "A">>)],
      [pnl_usd |-> -30, strategy |-> Str("A"), setup_tags |-> List(<<"A">>)] }

TagFields == {"strategy", "setup_tags"}

InitAnalytics ==
    /\ PipelineIdle
    /\ pc = "call"
    /\ \E n \in 0..MaxTrades :
         \E trade_list \in [1..n -> AnalyticsPool], tag_field \in TagFields :
            args = [trades |-> trade_list, tag_field |-> tag_field]
    /\ ret = [profit_factor |-> 0, aggregates |-> <<>>]

ProfitFactor ==
    /\ pc = "call"
    /\ pc' = "profit_factor"
    /\ ret' = [ret EXCEPT !.profit_factor = calculate_profit_factor(args.trades)]
    /\ UNCHANGED <<args, pipeline_vars>>

AggregateByTag ==
    /\ pc = "call"
    /\ pc' = "by_tag"
    /\ ret' = [ret EXCEPT !.aggregates = aggregate_by_tag(args.trades, args.tag_field)]
    /\ UNCHANGED <<args, pipeline_vars>>

NextAnalytics ==
    \/ ProfitFactor
    \/ AggregateByTag

SpecAnalytics == InitAnalytics /\ [][NextAnalytics]_vars

(***************************************************************************)
(* Claims about the pure functions                                         *)
(***************************************************************************)
\* the indices of the events of dates inside [start, end]
Window(dates, start, end) ==
    {i \in 1..Len(dates) : ~DTLess(dates[i], start) /\ ~DTLess(end, dates[i])}

SetMax(S) == CHOOSE x \in S : \A y \in S : y <= x

RECURSIVE SumLen(_, _)
SumLen(f, S) ==
    IF S = {} THEN 0
    ELSE LET k == CHOOSE x \in S : TRUE
         IN  Len(f[k].values) + SumLen(f, S \ {k})

\* C2: every event with start <= t <= end_date is placed in exactly one bucket, and
\* the events outside the window do not affect the returned labels and values.
C2_BoundaryInclusion ==
    pc = "return" =>
      LET start  == get_timeframe_range(args.end_date, args.timeframe)
          W      == Window(args.dates, start, args.end_date)
          key    == [i \in W |-> get_bucket_key(args.dates[i], args.interval)]
          agg    == ret.aggregated
          inside == SelectSeq([i \in 1..Len(args.dates) |-> i], LAMBDA i : i \in W)
          alone  == filter_and_aggregate_by_timeframe(
                       [j \in 1..Len(inside) |-> args.dates[inside[j]]],
                       [j \in 1..Len(inside) |-> args.values[inside[j]]],
                       args.timeframe, args.interval, args.end_date, args.base_value)
      IN  /\ \A i \in W :
               /\ key[i] \in DOMAIN agg
               /\ \E j \in 1..Len(agg[key[i]].dates) :
                     /\ agg[key[i]].dates[j] = args.dates[i]
                     /\ agg[key[i]].values[j] = args.values[i]
               /\ \A k \in DOMAIN agg :
                     (\E j \in 1..Len(agg[k].dates) : agg[k].dates[j] = args.dates[i])
                        => k = key[i]
          /\ SumLen(agg, DOMAIN agg) = Cardinality(W)
          /\ ret.series.labels = alone.labels
          /\ ret.series.data = alone.data

\* an event exactly at start, one exactly at end_date and one outside the window
C2_Witness ==
    /\ pc = "return"
    /\ \E i \in 1..Len(args.dates) :
          args.dates[i] = get_timeframe_range(args.end_date, args.timeframe)
    /\ \E i \in 1..Len(args.dates) : args.dates[i] = args.end_date
    /\ \E i \in 1..Len(args.dates) : DTLess(args.end_date, args.dates[i])
    /\ Len(ret.series.data) >= 2

\* C3: the value of every populated bucket is the value of the last in-window event,
\* in input order, that floors to the bucket's key.
C3_LastValue ==
    pc = "return" =>
      LET start == get_timeframe_range(args.end_date, args.timeframe)
          W     == Window(args.dates, start, args.end_date)
          key   == [i \in W |-> get_bucket_key(args.dates[i], args.interval)]
          keys  == SortedDT({key[i] : i \in W})
          off   == Len(ret.series.data) - Len(keys)
      IN  W # {} =>
            /\ off \in {0, 1}
            /\ \A j \in 1..Len(keys) :
                  ret.series.data[off + j] = args.values[SetMax({i \in W : key[i] = keys[j]})]

\* a bucket of three events whose last value is neither the first, the sum nor the average
C3_Witness ==
    /\ pc = "return"
    /\ \E k \in DOMAIN ret.aggregated :
          /\ ret.aggregated[k].values = <<30, 20, 10>>
          /\ ret.series.data[Len(ret.series.data)] = 10

\* C4: with no event inside [start, end_date] the result is exactly the two points
\* (label(start), base_value), (label(end_date), base_value).
C4_EmptyWindowFlatLine ==
    pc = "return" =>
      LET start == get_timeframe_range(args.end_date, args.timeframe)
      IN  Window(args.dates, start, args.end_date) = {} =>
            /\ ret.series.labels =
                 <<format_date_label(start, args.timeframe, args.interval),
                   format_date_label(args.end_date, args.timeframe, args.interval)>>
            /\ ret.series.data = <<args.base_value, args.base_value>>

\* a non-empty input none of whose events is inside the window
C4_Witness ==
    /\ pc = "return"
    /\ Len(args.dates) = 2
    /\ Window(args.dates, get_timeframe_range(args.end_date, args.timeframe),
              args.end_date) = {}
    /\ Len(ret.series.data) = 2

\* C6: with a non-empty window the synthetic leading point (label(start), base_value)
\* is prepended if and only if the smallest populated bucket key is strictly after
\* start, and the bucket points follow it in order.
C6_SyntheticLeadingPoint ==
    pc = "return" =>
      LET start == get_timeframe_range(args.end_date, args.timeframe)
          W     == Window(args.dates, start, args.end_date)
          keys  == SortedDT({get_bucket_key(args.dates[i], args.interval) : i \in W})
          lead  == IF DTLess(start, keys[1]) THEN 1 ELSE 0
      IN  W # {} =>
            /\ Len(ret.series.labels) = lead + Len(keys)
            /\ Len(ret.series.data) = lead + Len(keys)
            /\ lead = 1 =>
                 /\ ret.series.labels[1] = format_date_label(start, args.timeframe, args.interval)
                 /\ ret.series.data[1] = args.base_value
            /\ \A j \in 1..Len(keys) :
                 ret.series.labels[lead + j] =
                    format_date_label(keys[j], args.timeframe, args.interval)

\* the smallest bucket key equals start: no synthetic point
C6_Witness ==
    /\ pc = "return"
    /\ DOMAIN ret.aggregated # {}
    /\ get_timeframe_range(args.end_date, args.timeframe) \in DOMAIN ret.aggregated
    /\ Len(ret.series.data) = Cardinality(DOMAIN ret.aggregated)

\* C7: get_bucket_key floors the timestamp to the start of its interval.
C7_BucketFlooring ==
    pc = "return" =>
      LET d == args.date
          k == ret.bucket
          iv == args.interval
          midnight == k.hour = 0 /\ k.minute = 0 /\ k.second = 0
          same_day == k.year = d.year /\ k.month = d.month /\ k.day = d.day
      IN  /\ iv = "30min" =>
                /\ same_day /\ k.hour = d.hour /\ k.second = 0
                /\ k.minute \in {0, 30}
                /\ k.minute <= d.minute /\ d.minute < k.minute + 30
          /\ iv = "daily" => same_day /\ midnight
          /\ iv = "weekly" =>
                /\ midnight
                /\ Weekday(k) = 0
                /\ ToOrdinal(d) - ToOrdinal(k) \in 0..6
          /\ iv = "monthly" =>
                midnight /\ k.year = d.year /\ k.month = d.month /\ k.day = 1
          /\ iv = "quarterly" =>
                /\ midnight /\ k.year = d.year /\ k.day = 1
                /\ k.month \in {1, 4, 7, 10}
                /\ k.month <= d.month /\ d.month <= k.month + 2
          /\ iv = "yearly" =>
                midnight /\ k.year = d.year /\ k.month = 1 /\ k.day = 1
          /\ iv \notin {"30min", "daily", "weekly", "monthly", "quarterly", "yearly"} =>
                same_day /\ midnight
          /\ d = DT(2025, 3, 17, 14, 47, 0) =>
                /\ iv = "30min" => k = DT(2025, 3, 17, 14, 30, 0)
                /\ iv = "weekly" => k = DT(2025, 3, 17, 0, 0, 0)
                /\ iv = "quarterly" => k = DT(2025, 1, 1, 0, 0, 0)

\* a Sunday whose Monday lies in the previous year
C7_Witness ==
    /\ pc = "return"
    /\ args.date = DT(2023, 1, 1, 14, 47, 0)
    /\ args.interval = "weekly"
    /\ ret.bucket = DT(2022, 12, 26, 0, 0, 0)

\* C10: the TimeframePolicy is a total lookup with the six durations and default
\* intervals (30 days and daily otherwise), and under the default interval of a named
\* timeframe every timestamp is less than one look-back duration after its bucket start.
C10_TimeframePolicy ==
    pc = "return" =>
      LET tf == args.timeframe
          days == CASE tf = "day" -> 1 [] tf = "week" -> 7 [] tf = "month" -> 30
                    [] tf = "quarter" -> 90 [] tf = "year" -> 365
                    [] tf = "5year" -> 1825 [] OTHER -> 30
          dflt == CASE tf \in {"day", "week"} -> "30min" [] tf = "month" -> "daily"
                    [] tf \in {"quarter", "year"} -> "weekly"
                    [] tf = "5year" -> "quarterly" [] OTHER -> "daily"
      IN  /\ ToOrdinal(args.date) - ToOrdinal(ret.start_date) = days
          /\ SecondOfDay(ret.start_date) = SecondOfDay(args.date)
          /\ ret.default_interval = dflt
          /\ tf \in {"day", "week", "month", "quarter", "year", "5year"} =>
                DTLess(ret.start_date, ret.default_bucket)

\* the fallback of an unrecognised timeframe, and the widest default bucket
C10_Witness ==
    /\ pc = "return"
    /\ \/ args.timeframe = "decade" /\ ret.default_interval = "daily"
       \/ args.timeframe = "5year" /\ args.date = DT(2025, 6, 30, 23, 59, 59)

RecognisedIntervals == {"30min", "daily", "weekly", "monthly", "quarterly", "yearly"}

\* C11: a recognised interval alone selects the label format, the same for every
\* timeframe; only an absent or unrecognised interval lets the timeframe select it, an
\* unrecognised timeframe giving the full ISO date.
C11_IntervalPrecedence ==
    pc = "return" =>
      LET d  == args.date
          iv == args.interval
          tf == args.timeframe
          q  == (d.month - 1) \div 3 + 1
          hm == <<"%H:%M", d.hour, d.minute>>
          md == <<"%m/%d", d.month, d.day>>
          by == <<"%b %Y", d.month, d.year>>
          yq == <<"%Y Q", d.year, q>>
      IN  /\ q \in 1..4
          /\ iv = "30min"     => ret.label = hm
          /\ iv = "daily"     => ret.label = md
          /\ iv = "weekly"    => ret.label = <<"W%W %m/%d", WeekOfYear(d), d.month, d.day>>
          /\ iv = "monthly"   => ret.label = by
          /\ iv = "quarterly" => ret.label = yq
          /\ iv = "yearly"    => ret.label = <<"%Y", d.year>>
          /\ iv \in RecognisedIntervals =>
                \A other \in Timeframes : format_date_label(d, other, iv) = ret.label
          /\ iv \notin RecognisedIntervals =>
                /\ tf = "day" =>
                      ret.label = (IF d.hour = 0 /\ d.minute = 0 THEN md ELSE hm)
                /\ tf = "week" => ret.label = <<"%a %m/%d", Weekday(d), d.month, d.day>>
                /\ tf \in {"month", "quarter"} => ret.label = md
                /\ tf = "year" => ret.label = by
                /\ tf = "5year" => ret.label = yq
                /\ tf \notin {"day", "week", "month", "quarter", "year", "5year"} =>
                      ret.label = <<"%Y-%m-%d", d.year, d.month, d.day>>

\* the quarterly interval under the day timeframe, for a timestamp of the fourth quarter
C11_Witness ==
    /\ pc = "return"
    /\ args.interval = "quarterly"
    /\ args.timeframe = "day"
    /\ args.date = DT(2025, 10, 5, 14, 47, 0)
    /\ ret.label = <<"%Y Q", 2025, 4>>

(***************************************************************************)
(* Claims about a run of the chart generators                              *)
(***************************************************************************)
Metrics == {"portfolio-value", "total-return"}

OutputPaths == {<<metric, timeframes[i]>> : metric \in Metrics, i \in 1..Len(timeframes)}

RECURSIVE SumPnl(_)
SumPnl(trade_list) ==
    IF trade_list = <<>> THEN 0
    ELSE (IF "pnl_usd" \in DOMAIN trade_list[1] THEN trade_list[1].pnl_usd ELSE 0)
         + SumPnl(Tail(trade_list))

\* the records of the input with a timestamp
Events == SelectSeq(trades, LAMBDA t : parse_trade_datetime(t) # None)

\* the events strictly before d, and the events from d on
EventsBefore(d) == SelectSeq(Events, LAMBDA t : DTLess(parse_trade_datetime(t), d))

EventsFrom(d) == SelectSeq(Events, LAMBDA t : ~DTLess(parse_trade_datetime(t), d))

\* the event series and the end date of the current invocation have been built
Built == pc \in {"portfolio_value_loop", "total_return", "total_return_loop", "done"}

\* portfolio-value-day.json has been written by the current invocation
PortfolioDayWritten ==
    \/ pc = "portfolio_value_loop" /\ timeframe_idx > 1
    \/ pc \in {"total_return", "total_return_loop", "done"}

\* C1: every series written has as many labels as values and at least two points,
\* and a finished run has written the twelve series.
C1_Shape ==
    /\ \A path \in DOMAIN files :
          /\ Len(files[path].labels) = Len(files[path].data)
          /\ Len(files[path].data) >= 2
    /\ pc = "done" => DOMAIN files = OutputPaths

\* a finished run over two events of one bucket: every generic series is the
\* synthetic point and that bucket
C1_Witness ==
    /\ pc = "done"
    /\ DOMAIN files = OutputPaths
    /\ Len(trade_dates) = 2
    /\ trade_dates[1] = trade_dates[2]
    /\ Len(files[<<"portfolio-value", "week">>].data) = 2

\* C5: on the portfolio-value day path the baseline is the global baseline plus the
\* P&L of the events strictly before end_date - 24h, the last value is that baseline
\* plus the P&L of the events inside the window, and only the events inside the
\* window give buckets.
C5_DayBaseline ==
    PortfolioDayWritten =>
      LET day      == files[<<"portfolio-value", "day">>].data
          start    == MinusDays(end_date, 1)
          baseline == NetDeposits(account_config) + SumPnl(EventsBefore(start))
          inside   == EventsFrom(start)
          keys     == {get_bucket_key(parse_trade_datetime(inside[i]), "30min") :
                          i \in 1..Len(inside)}
          lead     == IF \A k \in keys : DTLess(start, k) THEN 1 ELSE 0
      IN  /\ day[Len(day)] = baseline + SumPnl(inside)
          /\ inside = <<>> => day = <<baseline, baseline>>
          /\ inside # <<>> =>
                /\ Len(day) = lead + Cardinality(keys)
                /\ lead = 1 => day[1] = baseline

\* events at t - 46h (+100) and t (+50) over a global baseline of 1000
C5_Witness ==
    /\ PortfolioDayWritten
    /\ NetDeposits(account_config) = 1000
    /\ Len(Events) = 2
    /\ SumPnl(EventsBefore(MinusDays(end_date, 1))) = 100
    /\ files[<<"portfolio-value", "day">>].data = <<1100, 1150>>

C9_ReferenceEndDate ==
    (Built /\ Events # <<>>) =>
      /\ \A i \in 1..Len(Events) : DTLeq(parse_trade_datetime(Events[i]), end_date)
      /\ \E i \in 1..Len(Events) : parse_trade_datetime(Events[i]) = end_date
      /\ \A i \in 1..Len(timeframes) :
            /\ DTLeq(get_timeframe_range(end_date, timeframes[i]), end_date)
            /\ \A metric \in Metrics :
                 <<metric, timeframes[i]>> \in DOMAIN files =>
                   LET series   == files[<<metric, timeframes[i]>>]
                       interval == get_default_interval(timeframes[i])
                   IN  series.labels[Len(series.labels)] =
                          format_date_label(get_bucket_key(end_date, interval),
                                            timeframes[i], interval)

\* the latest event is not the first record of the input
C9_Witness ==
    /\ pc = "done"
    /\ Len(Events) = 2
    /\ DTLess(parse_trade_datetime(trades[2]), parse_trade_datetime(trades[1]))
    /\ end_date = parse_trade_datetime(trades[1])

\* C12: the event series holds exactly the records with a timestamp, each with the
\* timestamp parse_trade_datetime gives it, in ascending order of timestamp, records of
\* equal timestamp in their order in the input.
C12_EventSeries ==
    Built =>
      LET parsable == {i \in 1..Len(trades) : parse_trade_datetime(trades[i]) # None}
          n        == Len(sorted_trades)
      IN  /\ n = Cardinality(parsable)
          /\ Len(trade_dates) = n
          /\ \A k \in 1..n :
                /\ trade_dates[k] = parse_trade_datetime(sorted_trades[k])
                /\ trade_dates[k] # None
          /\ \A k \in 1..(n - 1) : ~DTLess(trade_dates[k + 1], trade_dates[k])
          /\ \E p \in [1..n -> parsable] :
                /\ \A k \in 1..n : sorted_trades[k] = trades[p[k]]
                /\ \A k, l \in 1..n :
                      k < l => /\ p[k] # p[l]
                               /\ trade_dates[k] = trade_dates[l] => p[k] < p[l]

\* two different records of the same timestamp
C12_Witness ==
    /\ Built
    /\ Len(trades) = 2
    /\ trades[1] # trades[2]
    /\ Len(sorted_trades) = 2
    /\ trade_dates[1] = trade_dates[2]
    /\ sorted_trades = trades

\* C13: a record without a usable exit date (key absent, or empty) and with a parsable
\* entry date gets the entry date combined with the entry time, and is an event of
\* the series.
C13_EntryFallback ==
    Built =>
      \A i \in 1..Len(trades) :
         LET trade == trades[i]
             entry == ParseDateTime(Get(trade, "entry_date", <<>>),
                                    Get(trade, "entry_time", <<>>))
         IN  (Get(trade, "exit_date", <<>>) = <<>> /\ entry # None) =>
               /\ parse_trade_datetime(trade) = entry
               /\ \E k \in 1..Len(sorted_trades) : sorted_trades[k] = trade

\* a record without exit keys is an event at its entry timestamp
C13_Witness ==
    /\ Built
    /\ Len(trades) = 1
    /\ "exit_date" \notin DOMAIN trades[1]
    /\ trade_dates = <<DT(2025, 3, 17, 14, 47, 0)>>

\* the return percentages of the current invocation have been computed
ReturnBuilt == pc \in {"total_return_loop", "done"}

\* total-return-day.json has been written by the current invocation
ReturnDayWritten ==
    \/ pc = "total_return_loop" /\ timeframe_idx > 1
    \/ pc = "done"

RECURSIVE Total(_)
Total(rows) == IF rows = <<>> THEN 0 ELSE rows[1].amount + Total(Tail(rows))

\* starting balance + deposits - withdrawals of the account configuration
Net == account_config.starting_balance + Total(account_config.deposits)
       - Total(account_config.withdrawals)

\* C14: the denominator of the returns is starting balance + deposits - withdrawals,
\* or 1 exactly when that is zero; the k-th return of the generic path is the P&L of
\* the first k events / denominator * 100; no denominator of either path is zero.
C14_Denominator ==
    ReturnBuilt =>
      LET denominator == IF Net = 0 THEN 1 ELSE Net
      IN  /\ denominator # 0
          /\ Len(series_values) = Len(sorted_trades)
          /\ \A k \in 1..Len(series_values) :
                /\ series_values[k].den = denominator
                /\ series_values[k].num = SumPnl(SubSeq(sorted_trades, 1, k)) * 100
          /\ DayStartValue(sorted_trades, MinusDays(end_date, 1),
                           StartingInvestment(account_config)) # 0

\* deposits and withdrawals cancel out, and the events have P&L
C14_Witness ==
    /\ ReturnBuilt
    /\ Net = 0
    /\ Len(series_values) = 2
    /\ series_values[2] = [num |-> 15000, den |-> 1]

\* C15: on the total-return day path the denominator is the day-start value (starting
\* investment plus the P&L of the events strictly before end_date - 24h), or, when
\* that is exactly zero, the starting investment itself, whatever its sign; the last
\* point of the day series is the P&L of the events of the window over it.
C15_DayDenominator ==
    ReturnDayWritten =>
      LET start      == MinusDays(end_date, 1)
          investment == IF Net = 0 THEN 1 ELSE Net
          at_start   == investment + SumPnl(EventsBefore(start))
          denominator == IF at_start = 0 THEN investment ELSE at_start
          inside     == EventsFrom(start)
          day        == files[<<"total-return", "day">>].data
      IN  inside # <<>> =>
            day[Len(day)] = Round2([num |-> SumPnl(inside) * 100, den |-> denominator])

\* a day-start value of zero under a positive starting investment
C15_Witness ==
    /\ ReturnDayWritten
    /\ Net = 1000
    /\ SumPnl(EventsBefore(MinusDays(end_date, 1))) = -1000
    /\ SumPnl(EventsFrom(MinusDays(end_date, 1))) = 50
    /\ files[<<"total-return", "day">>].data = <<0, 500>>

\* C16 as stated: without an event in the 24-hour window the day series of both
\* metrics is two points at the recomputed baseline, the global baseline (net deposits
\* for the portfolio value, the starting investment for the return) plus the P&L of
\* the events before the window.
C16_EmptyDayFlatLine ==
    pc = "done" =>
      LET start  == MinusDays(end_date, 1)
          before == SumPnl(EventsBefore(start))
          investment == IF Net = 0 THEN 1 ELSE Net
      IN  EventsFrom(start) = <<>> =>
            /\ files[<<"portfolio-value", "day">>].data = <<Net + before, Net + before>>
            /\ files[<<"total-return", "day">>].data =
                  <<(investment + before) * 100, (investment + before) * 100>>

\* C16 amended: without an event in the 24-hour window the day series is the two
\* points label(start), label(end_date); the portfolio value is flat at the recomputed
\* baseline and the total return is flat at 0 %.
C16_EmptyDayFlatLineByMetric ==
    pc = "done" =>
      LET start  == MinusDays(end_date, 1)
          before == SumPnl(EventsBefore(start))
          labels == <<format_date_label(start, "day", "30min"),
                      format_date_label(end_date, "day", "30min")>>
      IN  EventsFrom(start) = <<>> =>
            /\ files[<<"portfolio-value", "day">>] =
                  [labels |-> labels, data |-> <<Net + before, Net + before>>]
            /\ files[<<"total-return", "day">>] = [labels |-> labels, data |-> <<0, 0>>]

\* a run over a record without a timestamp, on net deposits of 1000
C16_Witness ==
    /\ pc = "done"
    /\ Len(trades) = 1
    /\ Events = <<>>
    /\ files[<<"portfolio-value", "day">>].data = <<1000, 1000>>
    /\ files[<<"total-return", "day">>].data = <<0, 0>>

\* the 30-minute buckets of the events from start on, in ascending order
DayKeys(start) ==
    SortedDT({get_bucket_key(parse_trade_datetime(EventsFrom(start)[i]), "30min") :
                 i \in 1..Len(EventsFrom(start))})

\* the labels of a day series over exactly the events from start on
DayLabels(start) ==
    (IF DTLess(start, DayKeys(start)[1])
     THEN <<format_date_label(start, "day", "30min")>> ELSE <<>>)
    \o [j \in 1..Len(DayKeys(start)) |-> format_date_label(DayKeys(start)[j], "day", "30min")]

\* C17 as stated: on the day path of both metrics the events aggregated are exactly
\* those of the last 24 hours, and the base value, the value of a synthetic leading
\* point, is the global baseline (net deposits for the portfolio value, the starting
\* investment for the return) plus the P&L of the events before the window.
C17_DayBaseAndSlice ==
    pc = "done" =>
      LET start  == MinusDays(end_date, 1)
          before == SumPnl(EventsBefore(start))
          investment == IF Net = 0 THEN 1 ELSE Net
          pv     == files[<<"portfolio-value", "day">>]
          tr     == files[<<"total-return", "day">>]
      IN  EventsFrom(start) # <<>> =>
            /\ pv.labels = DayLabels(start)
            /\ tr.labels = DayLabels(start)
            /\ DTLess(start, DayKeys(start)[1]) =>
                  /\ pv.data[1] = Net + before
                  /\ tr.data[1] = (investment + before) * 100

\* C17 amended: the events aggregated are exactly those of the last 24 hours on both
\* day paths; the base value is the recomputed baseline for the portfolio value and
\* 0 % for the total return.
C17_DayBaseAndSliceByMetric ==
    pc = "done" =>
      LET start  == MinusDays(end_date, 1)
          before == SumPnl(EventsBefore(start))
          pv     == files[<<"portfolio-value", "day">>]
          tr     == files[<<"total-return", "day">>]
      IN  EventsFrom(start) # <<>> =>
            /\ pv.labels = DayLabels(start)
            /\ tr.labels = DayLabels(start)
            /\ Len(pv.data) = Len(pv.labels)
            /\ Len(tr.data) = Len(tr.labels)
            /\ DTLess(start, DayKeys(start)[1]) =>
                  /\ pv.data[1] = Net + before
                  /\ tr.data[1] = 0

\* an event 48 hours before the end date (+100) and one 2 hours before it (+50), on
\* net deposits of 1000
C17_Witness ==
    /\ pc = "done"
    /\ Net = 1000
    /\ Len(Events) = 2
    /\ SumPnl(EventsBefore(MinusDays(end_date, 1))) = 100
    /\ files[<<"portfolio-value", "day">>].data = <<1100, 1150>>
    /\ files[<<"total-return", "day">>].data = <<0, 455>>

\* the series of a metric and timeframe computed on its own from the input
AloneSeries(metric, timeframe) ==
    LET sorted == SortedTrades(trades)
        dates  == TradeDates(sorted)
        end    == EndDate(dates, now)
    IN  IF metric = "portfolio-value"
        THEN PortfolioChartData(timeframe, sorted, dates,
                 PortfolioValues(sorted, NetDeposits(account_config)), end,
                 NetDeposits(account_config))
        ELSE ReturnChartData(timeframe, sorted, dates,
                 ReturnPercentages(sorted, StartingInvestment(account_config)), end,
                 StartingInvestment(account_config))

\* the iterations of the two loops that have run
IterationsRun ==
    CASE pc = "portfolio_value_loop" -> Len(timeframes) - Cardinality(args)
      [] pc = "total_return" -> Len(timeframes)
      [] pc = "total_return_loop" -> 2 * Len(timeframes) - Cardinality(args)
      [] pc = "done" -> 2 * Len(timeframes)
      [] OTHER -> 0

\* C18: whatever the order of the iterations, every series written is the series of
\* its timeframe computed alone, the event series is the one built before the loop,
\* and every iteration has written a file of its own.
C18_Independence ==
    /\ \A path \in DOMAIN files :
          /\ path \in OutputPaths
          /\ files[path] = AloneSeries(path[1], path[2])
    /\ Cardinality(DOMAIN files) = IterationsRun
    /\ pc = "done" => DOMAIN files = OutputPaths
    /\ Built =>
          /\ sorted_trades = SortedTrades(trades)
          /\ trade_dates = TradeDates(SortedTrades(trades))
          /\ end_date = EndDate(trade_dates, now)
          /\ pc = "portfolio_value_loop" =>
                series_values = PortfolioValues(sorted_trades, NetDeposits(account_config))
          /\ pc = "total_return_loop" =>
                series_values = ReturnPercentages(sorted_trades,
                                                  StartingInvestment(account_config))

\* both loops have ended with the day timeframe, which the script computes first
C18_Witness ==
    /\ pc = "done"
    /\ timeframe_idx = 1
    /\ Len(trade_dates) = 2
    /\ DOMAIN files = OutputPaths
    /\ files[<<"portfolio-value", "day">>].data = <<1100, 1150>>

\* the events of the series given to the aggregation are in ascending order
SortedInput == \A i \in 1..(Len(args.dates) - 1) : ~DTLess(args.dates[i + 1], args.dates[i])

\* C19: for every sorted input the series begins at the window boundary: its first
\* point is the synthetic point of start or a bucket whose key equals start, and no
\* point is a bucket whose key is earlier than start.
C19_BeginsAtBoundary ==
    (pc = "return" /\ SortedInput) =>
      LET start == get_timeframe_range(args.end_date, args.timeframe)
          keys  == DOMAIN ret.aggregated
      IN  /\ \A k \in keys : ~DTLess(k, start)
          /\ \/ Len(ret.series.data) > Cardinality(keys)
                /\ ret.series.labels[1] =
                      format_date_label(start, args.timeframe, args.interval)
             \/ start \in keys

\* a sorted input whose first bucket is after start: the series begins with the
\* synthetic point
C19_Witness ==
    /\ pc = "return"
    /\ SortedInput
    /\ Len(args.dates) = 3
    /\ Cardinality(DOMAIN ret.aggregated) = 2
    /\ Len(ret.series.data) = 3
    /\ ret.series.data[1] = args.base_value

\* the portfolio values of the current invocation have been computed
PortfolioBuilt == pc \in {"portfolio_value_loop", "total_return"}

\* C20: the value of the k-th event of the sorted series is starting balance + deposits
\* - withdrawals + the P&L of the events 1..k, an event without pnl_usd adding 0.
C20_PortfolioValues ==
    PortfolioBuilt =>
      /\ Len(series_values) = Len(sorted_trades)
      /\ \A k \in 1..Len(series_values) :
            /\ series_values[k] = Net + SumPnl(SubSeq(sorted_trades, 1, k))
            /\ "pnl_usd" \notin DOMAIN sorted_trades[k] =>
                  series_values[k] = (IF k = 1 THEN Net ELSE series_values[k - 1])

\* an event with P&L followed by an event without pnl_usd, on deposits and withdrawals
C20_Witness ==
    /\ PortfolioBuilt
    /\ Net = -100
    /\ Len(sorted_trades) = 2
    /\ "pnl_usd" \notin DOMAIN sorted_trades[2]
    /\ series_values = <<-50, -50>>

\* C21: for every timeframe, interval, end date and sorted input the series returned
\* has as many labels as values, and at least two points.
C21_ShapeAllIntervals ==
    (pc = "return" /\ SortedInput) =>
      /\ Len(ret.series.labels) = Len(ret.series.data)
      /\ Len(ret.series.data) >= 2

\* two events of one bucket that is after start: the synthetic point and the bucket
C21_Witness ==
    /\ pc = "return"
    /\ SortedInput
    /\ args.interval = "monthly"
    /\ Len(args.dates) = 2
    /\ Cardinality(DOMAIN ret.aggregated) = 1
    /\ Len(ret.series.labels) = 2
    /\ Len(ret.series.data) = 2

\* the bucket keys of the events from start on
WindowKeys(start, interval) ==
    {get_bucket_key(parse_trade_datetime(EventsFrom(start)[i]), interval) :
        i \in 1..Len(EventsFrom(start))}

\* the series of the window from start on begins with the synthetic point
HasLead(start, interval) ==
    /\ EventsFrom(start) # <<>>
    /\ \A k \in WindowKeys(start, interval) : DTLess(start, k)

\* C22 as stated: on the day path and on the generic path the value of the synthetic
\* leading point is the value held just before the window: the global baseline plus
\* the P&L of the events before start, or the cumulative return before start.
C22_LeadingValue ==
    pc = "done" =>
      \A i \in 1..Len(timeframes) :
         LET tf     == timeframes[i]
             start  == get_timeframe_range(end_date, tf)
             before == SumPnl(EventsBefore(start))
         IN  HasLead(start, get_default_interval(tf)) =>
               /\ files[<<"portfolio-value", tf>>].data[1] = Net + before
               /\ files[<<"total-return", tf>>].data[1] =
                     Round2([num |-> before * 100, den |-> IF Net = 0 THEN 1 ELSE Net])

\* C22 amended: the synthetic leading point has the value held just before the window
\* on the portfolio-value day path only; on the generic path it is the global
\* baseline, and in every total-return series it is 0.
C22_LeadingValueByPath ==
    pc = "done" =>
      \A i \in 1..Len(timeframes) :
         LET tf     == timeframes[i]
             start  == get_timeframe_range(end_date, tf)
             before == SumPnl(EventsBefore(start))
         IN  HasLead(start, get_default_interval(tf)) =>
               /\ files[<<"portfolio-value", tf>>].data[1] =
                     (IF tf = "day" THEN Net + before ELSE Net)
               /\ files[<<"total-return", tf>>].data[1] = 0

\* an event of -1000 before the week window and an event of +50 two hours before
\* the end date, on net deposits of 1000
C22_Witness ==
    /\ pc = "done"
    /\ Net = 1000
    /\ Len(Events) = 2
    /\ files[<<"portfolio-value", "day">>].data = <<0, 50>>
    /\ files[<<"portfolio-value", "week">>].data = <<1000, 50>>
    /\ files[<<"total-return", "week">>].data[1] = 0

\* the key of S with j - 1 keys of S before it
KeyAt(S, j) == CHOOSE k \in S : Cardinality({x \in S : DTLess(x, k)}) = j - 1

\* C23: the populated buckets are the distinct keys of the events of the window; the
\* series has one point for each, in strictly increasing order of key, after at most
\* one synthetic leading point.
C23_OnePointPerBucket ==
    pc = "return" =>
      LET start == get_timeframe_range(args.end_date, args.timeframe)
          W     == Window(args.dates, start, args.end_date)
          keys  == {get_bucket_key(args.dates[i], args.interval) : i \in W}
          n     == Cardinality(keys)
          off   == Len(ret.series.labels) - n
      IN  W # {} =>
            /\ DOMAIN ret.aggregated = keys
            /\ off \in {0, 1}
            /\ Len(ret.series.data) = Len(ret.series.labels)
            /\ \A j \in 1..n :
                  /\ ret.series.labels[off + j] =
                        format_date_label(KeyAt(keys, j), args.timeframe, args.interval)
                  /\ ret.series.data[off + j] =
                        ret.aggregated[KeyAt(keys, j)].values[
                            Len(ret.aggregated[KeyAt(keys, j)].values)]
            /\ \A j \in 1..(n - 1) : DTLess(KeyAt(keys, j), KeyAt(keys, j + 1))

\* three events given out of order, in three buckets
C23_Witness ==
    /\ pc = "return"
    /\ Len(args.dates) = 3
    /\ DTLess(args.dates[3], args.dates[2])
    /\ DTLess(args.dates[2], args.dates[1])
    /\ Cardinality(DOMAIN ret.aggregated) = 3
    /\ Len(ret.series.data) = 3

\* C24: a record with a parsable exit date and no exit time gets midnight of the exit
\* date, whatever its entry date and entry time are, and is an event of the series.
C24_MidnightWithoutTime ==
    Built =>
      \A i \in 1..Len(trades) :
         LET trade == trades[i]
             date  == Get(trade, "exit_date", <<>>)
         IN  (/\ date # <<>>
              /\ FromIsoFields(date, <<0, 0, 0>>) # None
              /\ "exit_time" \notin DOMAIN trade) =>
               /\ parse_trade_datetime(trade) = FromIsoFields(date, <<0, 0, 0>>)
               /\ \E k \in 1..Len(sorted_trades) : sorted_trades[k] = trade

\* a record with an exit date and no time at all is an event at midnight
C24_Witness ==
    /\ Built
    /\ Len(trades) = 1
    /\ DOMAIN trades[1] = {"exit_date", "pnl_usd"}
    /\ trade_dates = <<DT(2025, 3, 1, 0, 0, 0)>>

\* the events of the sorted series from start on
SortedFrom(start) ==
    SelectSeq(sorted_trades, LAMBDA t : ~DTLess(parse_trade_datetime(t), start))

\* the position in seq of the last event of the 30-minute bucket key
LastOfBucket(seq, key) ==
    SetMax({m \in 1..Len(seq) : get_bucket_key(parse_trade_datetime(seq[m]), "30min") = key})

\* C25: in the total-return day series the value of a bucket is 100 * (P&L of the
\* events of the window up to the last event of the bucket) / D, rounded to two
\* places, D being the starting investment plus the P&L before the window after the
\* substitution for zero; the synthetic leading value is 0.
C25_DayReturns ==
    ReturnDayWritten =>
      LET start      == MinusDays(end_date, 1)
          investment == IF Net = 0 THEN 1 ELSE Net
          at_start   == investment + SumPnl(EventsBefore(start))
          D          == IF at_start # 0 THEN at_start
                        ELSE IF investment > 0 THEN investment ELSE 1
          inside     == SortedFrom(start)
          keys       == WindowKeys(start, "30min")
          n          == Cardinality(keys)
          day        == files[<<"total-return", "day">>].data
          lead       == Len(day) - n
      IN  inside # <<>> =>
            /\ lead \in {0, 1}
            /\ lead = 1 => day[1] = 0
            /\ \A j \in 1..n :
                  day[lead + j] =
                     Round2([num |-> 100 * SumPnl(SubSeq(inside, 1,
                                         LastOfBucket(inside, KeyAt(keys, j)))),
                             den |-> D])

\* +100 before the window and +50 inside it, on a starting investment of 1
C25_Witness ==
    /\ ReturnDayWritten
    /\ Net = 0
    /\ SumPnl(EventsBefore(MinusDays(end_date, 1))) = 100
    /\ Len(Events) = 2
    /\ files[<<"total-return", "day">>].data = <<0, 4950>>

\* C26: calculate_profit_factor is 0 whenever the list has no losing trade, and gross
\* profit over the absolute gross loss otherwise.
C26_NoLossIsZero ==
    pc = "profit_factor" =>
      LET losing == SelectSeq(args.trades, LAMBDA t : Get(t, "pnl_usd", 0) < 0)
          profit == SumPnl(SelectSeq(args.trades, LAMBDA t : Get(t, "pnl_usd", 0) > 0))
      IN  IF losing = <<>>
          THEN ret.profit_factor = 0
          ELSE ret.profit_factor = RoundDiv(profit * 100, 0 - SumPnl(losing))

\* a list of winning trades only
C26_Witness ==
    /\ pc = "profit_factor"
    /\ Len(args.trades) = 2
    /\ \A i \in 1..2 : Get(args.trades[i], "pnl_usd", 0) > 0
    /\ ret.profit_factor = MAX_PROFIT_FACTOR

\* the tag the claim gives a trade: the first element of a non-empty list, the string
\* itself, and "Unclassified" for a missing field, the empty list and an empty tag
ClaimedTag(trade, tag_field) ==
    LET tag == IF tag_field \notin DOMAIN trade THEN ""
               ELSE IF trade[tag_field].items = <<>> THEN ""
               ELSE trade[tag_field].items[1]
    IN  IF tag = "" THEN "Unclassified" ELSE tag

RECURSIVE SumTotalTrades(_, _)
SumTotalTrades(aggregates, tags) ==
    IF tags = {} THEN 0
    ELSE LET tag == CHOOSE x \in tags : TRUE
         IN  aggregates[tag].total_trades + SumTotalTrades(aggregates, tags \ {tag})

\* C27: aggregate_by_tag counts every trade once, under the first element of its list
\* or under "Unclassified" when the tag is missing or empty; the keys are the tags
\* so given, each with the count and the P&L of its trades, and the counts add up to
\* the number of trades.
C27_CountedOnce ==
    pc = "by_tag" =>
      LET aggregates == ret.aggregates
          n          == Len(args.trades)
          under(tag) == {i \in 1..n : ClaimedTag(args.trades[i], args.tag_field) = tag}
      IN  /\ DOMAIN aggregates = {ClaimedTag(args.trades[i], args.tag_field) : i \in 1..n}
          /\ \A tag \in DOMAIN aggregates :
                /\ aggregates[tag].total_trades = Cardinality(under(tag))
                /\ aggregates[tag].total_pnl =
                      100 * SumPnl(SelectSeq(args.trades,
                               LAMBDA t : ClaimedTag(t, args.tag_field) = tag))
          /\ SumTotalTrades(aggregates, DOMAIN aggregates) = n

\* a trade tagged with a list of two elements and a trade with an empty list
C27_Witness ==
    /\ pc = "by_tag"
    /\ args.tag_field = "setup_tags"
    /\ Len(args.trades) = 2
    /\ Get(args.trades[1], "setup_tags", NoneTag) = List(<<"A", "B">>)
    /\ Get(args.trades[2], "setup_tags", NoneTag) = List(<<>>)
    /\ DOMAIN ret.aggregates = {"A", "Unclassified"}

\* the six portfolio-value series of the current invocation have been written
PortfolioWritten == pc \in {"total_return", "total_return_loop", "done"}

\* C28: with at least one event, each of the six portfolio-value series ends with
\* starting balance + deposits - withdrawals + the P&L of all events.
C28_SameFinalValue ==
    (PortfolioWritten /\ Events # <<>>) =>
      \A i \in 1..Len(timeframes) :
         LET data == files[<<"portfolio-value", timeframes[i]>>].data
         IN  data[Len(data)] = Net + SumPnl(Events)

\* two trades with P&L share the latest timestamp
C28_Witness ==
    /\ PortfolioWritten
    /\ Len(Events) = 2
    /\ parse_trade_datetime(trades[1]) = end_date
    /\ parse_trade_datetime(trades[2]) = end_date
    /\ \A i \in 1..2 : Get(trades[i], "pnl_usd", 0) # 0
    /\ files[<<"portfolio-value", "day">>].data[Len(files[<<"portfolio-value", "day">>].data)]
         = Net + SumPnl(Events)

\* filter_and_aggregate_by_timeframe applied to the whole portfolio-value series with
\* the timeframe day and the global base value
GenericDay ==
    filter_and_aggregate_by_timeframe(
        trade_dates,
        [k \in 1..Len(sorted_trades) |-> Net + SumPnl(SubSeq(sorted_trades, 1, k))],
        "day", "30min", end_date, Net)

\* C29: every event of the sorted series is either strictly before end_date - 24h or
\* inside [end_date - 24h, end_date], never both and never neither; the day series of
\* the portfolio value has the labels of the generic aggregation of the whole series
\* with the timeframe day and its values, except for the value of a synthetic leading
\* point, which is the base value plus the P&L of the events before the window.
C29_DayPathIsGenericPath ==
    PortfolioDayWritten =>
      LET start  == MinusDays(end_date, 1)
          n      == Len(sorted_trades)
          before == {k \in 1..n : IsBefore(trade_dates[k], start)}
          inside == {k \in 1..n : InRange(trade_dates[k], start, end_date)}
          day    == files[<<"portfolio-value", "day">>]
          lead   == Len(day.data) > Cardinality(WindowKeys(start, "30min"))
      IN  /\ before \cap inside = {}
          /\ before \cup inside = 1..n
          /\ day.labels = GenericDay.labels
          /\ Len(day.data) = Len(GenericDay.data)
          /\ \A j \in 1..Len(day.data) :
                IF j = 1 /\ lead /\ inside # {}
                THEN day.data[j] = Net + SumPnl(EventsBefore(start))
                ELSE day.data[j] = GenericDay.data[j]

\* an event before the window and one inside it: the two paths differ in the leading
\* value and agree on the value of the event
C29_Witness ==
    /\ PortfolioDayWritten
    /\ EventsBefore(MinusDays(end_date, 1)) # <<>>
    /\ Len(files[<<"portfolio-value", "day">>].data) = 2
    /\ files[<<"portfolio-value", "day">>].data[1] # GenericDay.data[1]
    /\ files[<<"portfolio-value", "day">>].data[2] = GenericDay.data[2]

\* C30: for every interval the bucket key of t is at most t, is its own bucket key,
\* and is at most the bucket key of every later timestamp and at least the bucket key
\* of every earlier one; hence a timestamp between two timestamps of one bucket is in
\* that bucket.
C30_Floor ==
    pc = "return" =>
      /\ DTLeq(ret.bucket, args.date)
      /\ get_bucket_key(ret.bucket, args.interval) = ret.bucket
      /\ \A t2 \in KeyDates :
            /\ DTLeq(args.date, t2) =>
                  DTLeq(ret.bucket, get_bucket_key(t2, args.interval))
            /\ DTLeq(t2, args.date) =>
                  DTLeq(get_bucket_key(t2, args.interval), ret.bucket)
            /\ (DTLeq(ret.bucket, t2) /\ DTLeq(t2, args.date)) =>
                  get_bucket_key(t2, args.interval) = ret.bucket

\* a week that begins in the year before: the key is below the timestamp, and another
\* timestamp lies between them
C30_Witness ==
    /\ pc = "return"
    /\ args.interval = "weekly"
    /\ args.date = DT(2025, 1, 1, 14, 47, 0)
    /\ ret.bucket = DT(2024, 12, 30, 0, 0, 0)
    /\ \E t2 \in KeyDates : DTLess(ret.bucket, t2) /\ DTLess(t2, args.date)

====
